---- MODULE Spec2Model ----
(***************************************************************************)
(* Model of src/gmail.py: scrape() builds a pool of IMAP connections,      *)
(* leases them to the threads of a multiprocessing.pool.ThreadPool through *)
(* a lock-guarded list of connection ids, and runs two map_async phases    *)
(* (fetch_message_ids per mailbox, then fetch_message per (mailbox, id)).  *)
(* The source is Python 2 (print statement in src/analyze.py:158), so      *)
(* map_async/get are modelled as in the 2.7 standard library.              *)
(***************************************************************************)
EXTENDS Integers, Sequences, FiniteSets, TLC

\* ------------------------------------------------------------- bounds
\* Number of connections in the pool; src/gmail.py:15 sets 10, the model
\* scales it down.
CONNECTION_POOL_SIZE == 2
\* Largest multiprocessing.cpu_count() considered.
MaxCpu == 1
\* Largest number of messages INBOX and Sent hold.
MaxInbox == 5
MaxSent == 1
\* Largest length of a caller-supplied mailbox list.
MaxMailboxes == 2
\* Largest number of non-OK answers / refused logins the server gives.
MaxFailures == 1
\* Largest value of the --connections option considered.
MaxConnectionsArg == 3
\* Largest number of lines in a mailbox listing drawn as an input.
MaxListing == 3

\* ---------------------------------------------------------- constants
IMAP_OK == "OK"
IMAP_NO == "NO"
None == <<>>
NoWorker == 0

INBOX == <<"I", "N", "B", "O", "X">>
Sent == <<"S", "e", "n", "t">>
Mailboxes == {INBOX, Sent}

\* The marker get_mailboxes looks for, '[Gmail]', as characters.
GmailMarker == <<"[", "G", "m", "a", "i", "l", "]">>
\* The separator parse_mailbox splits on: quote, space, quote.
NameSeparator == <<"\"", " ", "\"">>

\* One raw line of imap.list(): flags, delimiter, quoted name.
RawLine(name) == <<"(", ")", " ", "\"", "/", "\"", " ", "\"">> \o name \o <<"\"">>
\* A mailbox of the reserved namespace.
Trash == GmailMarker \o <<"/", "T", "r", "a", "s", "h">>
\* The names a listing may hold.
ListedNames == {INBOX, Sent, Trash}
\* The listing the server answers imap.list() with.
ListResponse == << RawLine(INBOX), RawLine(Trash), RawLine(Sent) >>

\* ------------------------------------------------------------ helpers
Last(s) == s[Len(s)]
Front(s) == SubSeq(s, 1, Len(s) - 1)
Min(a, b) == IF a <= b THEN a ELSE b
Range(s) == {s[i] : i \in 1..Len(s)}

\* range(n) of Python as a sequence: 0, 1, ..., n-1.
PyRange(n) == [i \in 1..n |-> i - 1]

\* sub in s (Python's substring test on str).
Contains(s, sub) ==
  \E i \in 1..(Len(s) - Len(sub) + 1) : SubSeq(s, i, i + Len(sub) - 1) = sub

\* s.split(sep)[-1]: the part of s after the last occurrence of sep.
RECURSIVE LastPart(_, _)
LastPart(s, sep) ==
  IF Contains(s, sep)
  THEN LET i == CHOOSE j \in 1..(Len(s) - Len(sep) + 1) :
                  /\ SubSeq(s, j, j + Len(sep) - 1) = sep
                  /\ \A k \in 1..(j - 1) : SubSeq(s, k, k + Len(sep) - 1) # sep
       IN LastPart(SubSeq(s, i + Len(sep), Len(s)), sep)
  ELSE s

\* Mutant of parse_mailbox: the closing quote is not cut off.
parse_mailboxKeepQuote(line) == LastPart(line, NameSeparator)

\* parse_mailbox = lambda mailbox: mailbox.split('" "')[-1][:-1]
parse_mailbox(line) ==
  LET part == LastPart(line, NameSeparator)
  IN IF part = <<>> THEN <<>> ELSE Front(part)

\* Gmail.get_mailboxes: the parsed names of the lines without the marker,
\* in listing order.
RECURSIVE get_mailboxes(_)
get_mailboxes(lines) ==
  IF lines = <<>> THEN <<>>
  ELSE LET rest == get_mailboxes(Tail(lines))
       IN IF ~Contains(Head(lines), GmailMarker)
          THEN <<parse_mailbox(Head(lines))>> \o rest
          ELSE rest

\* -------------------------------------------------------------- state
VARIABLES
  mainpc,            \* where scrape() is
  cpu,               \* multiprocessing.cpu_count()
  arg,               \* the mailboxes argument: [given, list]
  exists,            \* server: number of messages in each mailbox
  connections_arg,   \* args.connections of __main__ (line 152)
  list_response,     \* server: the lines it answers imap.list() with
  max_faults,        \* server: non-OK answers it gives in this run at most
  faults,            \* non-OK answers and refused logins given so far
  connections,       \* the list of connection ids built at line 88
  imap,              \* per connection: imaplib state and selected mailbox
  avail_connections, \* manager.list of available connection ids
  lock,              \* holder of multiprocessing.Lock (NoWorker: free)
  workers,           \* number of ThreadPool threads (0: no pool yet)
  mailboxes,         \* the mailbox list of Phase A
  listing,           \* connection main is calling imap.list() on, or -1
  taskq,             \* ThreadPool task queue: chunks [job, i, tasks]
  job,               \* the MapResult of the current map_async
  message_ids,       \* result of Phase A
  messages,          \* return value of scrape
  error,             \* exception scrape raised, or None
  wpc, wchunk, wk, wres, wconn,   \* per worker thread
  lastcall,          \* history: per worker, the method call in progress
  started,           \* history: per job, times each task was started
  task_failed,       \* history: some task raised
  listed,            \* history: get_mailboxes was called
  roundtrip          \* history: the last acquire/release pair, if adjacent

vars == << mainpc, cpu, arg, exists, connections_arg, list_response,
           max_faults, lastcall, faults, connections, imap,
           avail_connections, lock, workers, mailboxes, listing, taskq,
           job, message_ids, messages, error, wpc, wchunk, wk, wres, wconn,
           started, task_failed, listed, roundtrip >>

mainvars == << mainpc, mailboxes, listing, message_ids, messages, error, listed >>
envvars == << cpu, arg, exists, connections_arg, list_response, max_faults >>
poolvars == << connections, avail_connections, lock, workers >>
workervars == << wpc, wchunk, wk, wres, wconn, lastcall >>

ConnIds == 0..(CONNECTION_POOL_SIZE - 1)
WorkerIds == 1..CONNECTION_POOL_SIZE
Threads == 1..workers

\* Sequences over S of length at most n.
SeqsUpTo(S, n) == UNION {[1..k -> S] : k \in 0..n}

NoJob == [id |-> 0, chunksize |-> 0, number_left |-> 0, value |-> <<>>,
          success |-> TRUE, ready |-> FALSE, cached |-> FALSE, length |-> 0]

NoChunk == [job |-> 0, i |-> 0, tasks |-> <<>>]

NoError == "none"

NoCall == [selector |-> "", mailbox |-> None, prior |-> None,
           statuses |-> <<>>, served |-> None, outcome |-> "none"]

NoRoundtrip == [phase |-> "none", worker |-> NoWorker, before |-> {}]

\* The mailboxes argument: None (not given) or a list.
MailboxArgs ==
  {[given |-> FALSE, list |-> <<>>]}
    \cup {[given |-> TRUE, list |-> l] : l \in SeqsUpTo(Mailboxes, MaxMailboxes)}

\* The state scrape starts in, whatever its inputs.
InitState ==
  /\ mainpc = "connect"
  /\ faults = 0
  /\ connections = <<>>
  /\ imap = [c \in ConnIds |-> [state |-> "NONE", mailbox |-> None]]
  /\ avail_connections = <<>>
  /\ lock = NoWorker
  /\ workers = 0
  /\ mailboxes = <<>>
  /\ listing = -1
  /\ taskq = <<>>
  /\ job = NoJob
  /\ message_ids = <<>>
  /\ messages = <<>>
  /\ error = NoError
  /\ wpc = [w \in WorkerIds |-> "idle"]
  /\ wchunk = [w \in WorkerIds |-> NoChunk]
  /\ wk = [w \in WorkerIds |-> 0]
  /\ wres = [w \in WorkerIds |-> <<>>]
  /\ wconn = [w \in WorkerIds |-> -1]
  /\ lastcall = [w \in WorkerIds |-> NoCall]
  /\ started = [j \in 1..2 |-> <<>>]
  /\ task_failed = FALSE
  /\ listed = FALSE
  /\ roundtrip = NoRoundtrip

\* A run of __main__ without --connections (its default, line 152) against
\* a server with the listing ListResponse.
Init ==
  /\ cpu \in 1..MaxCpu
  /\ arg \in MailboxArgs
  /\ exists \in {f \in [Mailboxes -> 0..(MaxInbox + MaxSent)] :
                    f[INBOX] <= MaxInbox /\ f[Sent] <= MaxSent}
  /\ connections_arg = CONNECTION_POOL_SIZE
  /\ list_response = ListResponse
  /\ max_faults = MaxFailures
  /\ InitState

\* ------------------------------------------------- ThreadPool.map_async
\* chunksize, extra = divmod(len(iterable), len(self._pool) * 4), plus one
\* when extra is not 0; 0 for an empty task list.
ChunkSize(len, nthreads) ==
  IF len = 0 THEN 0
  ELSE (len \div (nthreads * 4)) + (IF len % (nthreads * 4) # 0 THEN 1 ELSE 0)

NumChunks(len, size) ==
  IF size <= 0 THEN 0 ELSE (len \div size) + (IF len % size # 0 THEN 1 ELSE 0)

\* Pool._get_tasks: consecutive slices of size tasks, numbered from 0.
get_tasks(jobid, tasks, size) ==
  [n \in 1..NumChunks(Len(tasks), size) |->
     [job |-> jobid, i |-> n - 1,
      tasks |-> SubSeq(tasks, (n - 1) * size + 1, Min(n * size, Len(tasks)))]]

\* MapResult.__init__: ready at once (and out of the cache) when there is
\* nothing to run.
MapResult(jobid, tasks, nthreads) ==
  LET size == ChunkSize(Len(tasks), nthreads)
  IN [id |-> jobid, chunksize |-> size,
      number_left |-> NumChunks(Len(tasks), size),
      value |-> [k \in 1..Len(tasks) |-> None],
      success |-> TRUE, ready |-> (size <= 0), cached |-> (size > 0),
      length |-> Len(tasks)]

\* Mutant of SliceAssign: the slice starts one chunk too far.
SliceAssignShifted(value, i, size, result) ==
  SubSeq(value, 1, (i + 1) * size) \o result
    \o SubSeq(value, Min((i + 2) * size, Len(value)) + 1, Len(value))

\* value[i*chunksize:(i+1)*chunksize] = result
SliceAssign(value, i, size, result) ==
  SubSeq(value, 1, i * size) \o result
    \o SubSeq(value, Min((i + 1) * size, Len(value)) + 1, Len(value))

\* Mutant of MapResultSet: a failed chunk is counted as done and its
\* exception is dropped.
MapResultSetSwallow(j, i, ok, res) ==
  [j EXCEPT !.value = IF ok THEN SliceAssign(j.value, i, j.chunksize, res) ELSE j.value,
            !.number_left = j.number_left - 1,
            !.ready = (j.number_left - 1 = 0),
            !.cached = (j.number_left - 1 # 0)]

\* Mutant of MapResultSet: a failure is stored but the job is ready only
\* when every chunk has reported.
MapResultSetWaitAll(j, i, ok, res) ==
  [j EXCEPT !.value = IF ~j.success THEN j.value
                      ELSE IF ok THEN SliceAssign(j.value, i, j.chunksize, res)
                      ELSE res,
            !.success = j.success /\ ok,
            !.number_left = j.number_left - 1,
            !.ready = (j.number_left - 1 = 0),
            !.cached = (j.number_left - 1 # 0)]

\* MapResult._set (Python 2.7): a successful chunk is stored at its place
\* and the job is ready when none is left; the first failed chunk makes the
\* job ready at once, with the exception as its value.
MapResultSet(j, i, ok, res) ==
  IF ok
  THEN [j EXCEPT !.value = SliceAssign(j.value, i, j.chunksize, res),
                 !.number_left = j.number_left - 1,
                 !.ready = (j.number_left - 1 = 0),
                 !.cached = (j.number_left - 1 # 0)]
  ELSE [j EXCEPT !.success = FALSE, !.value = res,
                 !.ready = TRUE, !.cached = FALSE]

\* ------------------------------------------------------- scrape, main
\* Mutant of FetchTasks: the tasks are built in reverse order.
FetchTasksReversed(pairs) ==
  [k \in 1..Len(pairs) |-> <<"fetch_message", pairs[Len(pairs) - k + 1]>>]

\* Line 127 / 134: the task tuples (selector, func_args).
IdsTasks(boxes) == [k \in 1..Len(boxes) |-> <<"fetch_message_ids", <<boxes[k]>> >>]
FetchTasks(pairs) == [k \in 1..Len(pairs) |-> <<"fetch_message", pairs[k]>>]

\* Line 133: [(mailbox, id_) for mailbox, ids in message_ids for id_ in ids]
RECURSIVE Flatten(_)
Flatten(mids) ==
  IF mids = <<>> THEN <<>>
  ELSE LET mailbox == Head(mids)[1]
           ids == Head(mids)[2]
       IN [k \in 1..Len(ids) |-> <<mailbox, ids[k]>>] \o Flatten(Tail(mids))

\* Mutant of Connect: a failed connect or login is noted and the loop
\* goes on with the connection as it is.
ConnectCarryOn ==
  /\ mainpc = "connect"
  /\ Len(connections) < CONNECTION_POOL_SIZE
  /\ LET i == Len(connections)
     IN /\ connections' = Append(connections, i)
        /\ \/ /\ imap' = [imap EXCEPT ![i] = [state |-> "AUTH", mailbox |-> None]]
              /\ UNCHANGED << error, faults >>
           \/ /\ faults < max_faults
              /\ \E e \in {"ConnectionError", "AuthenticationError"} : error' = e
              /\ faults' = faults + 1
              /\ imap' = [imap EXCEPT ![i] = [state |-> "NONAUTH", mailbox |-> None]]
  /\ UNCHANGED << envvars, mainpc, avail_connections, lock, workers, mailboxes,
                  listing, taskq, job, message_ids, messages, workervars,
                  started, task_failed, listed, roundtrip >>

\* Lines 88-89, one element: Gmail.__init__ connects and logs in; either
\* may raise, which ends scrape.
Connect ==
  /\ mainpc = "connect"
  /\ Len(connections) < CONNECTION_POOL_SIZE
  /\ LET i == Len(connections)
     IN \/ /\ connections' = Append(connections, i)
           /\ imap' = [imap EXCEPT ![i] = [state |-> "AUTH", mailbox |-> None]]
           /\ UNCHANGED << mainpc, error, faults >>
        \/ /\ faults < max_faults
           /\ \E e \in {"ConnectionError", "AuthenticationError"} : error' = e
           /\ mainpc' = "failed"
           /\ faults' = faults + 1
           /\ UNCHANGED << connections, imap >>
  /\ UNCHANGED << envvars, avail_connections, lock, workers, mailboxes, listing,
                  taskq, job, message_ids, messages, workervars,
                  started, task_failed, listed, roundtrip >>

\* Lines 91-120: the list of available ids, the lock, the thread pool.
CreatePool ==
  /\ mainpc = "connect"
  /\ Len(connections) = CONNECTION_POOL_SIZE
  /\ avail_connections' = PyRange(CONNECTION_POOL_SIZE)
  /\ lock' = NoWorker
  /\ workers' = Min(Len(connections), cpu * 2)
  /\ mainpc' = "mailboxes"
  /\ UNCHANGED << envvars, faults, connections, imap, mailboxes, listing, taskq,
                  job, message_ids, messages, error, workervars,
                  started, task_failed, listed, roundtrip >>

\* Line 122: a supplied list is used as it is.
UseMailboxes ==
  /\ mainpc = "mailboxes"
  /\ arg.given
  /\ mailboxes' = arg.list
  /\ mainpc' = "submitA"
  /\ UNCHANGED << envvars, faults, poolvars, imap, listing, taskq, job,
                  message_ids, messages, error, workervars, started,
                  task_failed, listed, roundtrip >>

\* Line 123, the call: connections[0].get_mailboxes() sends LIST.
ListBegin ==
  /\ mainpc = "mailboxes"
  /\ ~arg.given
  /\ listing' = connections[1]
  /\ listed' = TRUE
  /\ mainpc' = "listing"
  /\ UNCHANGED << envvars, faults, poolvars, imap, mailboxes, taskq, job,
                  message_ids, messages, error, workervars, started,
                  task_failed, roundtrip >>

\* Line 123, the answer: the filtered, parsed names as a list.
ListEnd ==
  /\ mainpc = "listing"
  /\ mailboxes' = get_mailboxes(list_response)
  /\ listing' = -1
  /\ mainpc' = "submitA"
  /\ UNCHANGED << envvars, faults, poolvars, imap, taskq, job,
                  message_ids, messages, error, workervars, started,
                  task_failed, listed, roundtrip >>

\* pool.map_async(round_robin_connections, tasks): the job and its chunks.
Submit(jobid, tasks) ==
  /\ job' = MapResult(jobid, tasks, workers)
  /\ taskq' = taskq \o get_tasks(jobid, tasks, ChunkSize(Len(tasks), workers))
  /\ started' = [started EXCEPT ![jobid] = [k \in 1..Len(tasks) |-> 0]]

\* Lines 127-128.
SubmitIds ==
  /\ mainpc = "submitA"
  /\ Submit(1, IdsTasks(mailboxes))
  /\ mainpc' = "waitA"
  /\ UNCHANGED << envvars, faults, poolvars, imap, mailboxes, listing,
                  message_ids, messages, error, workervars, task_failed,
                  listed, roundtrip >>

\* Mutant of GetIds: the value of the job is read without waiting for it.
GetIdsNoWait ==
  /\ mainpc = "waitA"
  /\ IF job.success
     THEN /\ message_ids' = job.value
          /\ mainpc' = "submitB"
          /\ error' = error
     ELSE /\ error' = job.value
          /\ mainpc' = "failed"
          /\ message_ids' = message_ids
  /\ UNCHANGED << envvars, faults, poolvars, imap, mailboxes, listing, taskq,
                  job, messages, workervars, started, task_failed,
                  listed, roundtrip >>

\* Line 129: job.get() returns the value or raises the stored exception.
GetIds ==
  /\ mainpc = "waitA"
  /\ job.ready
  /\ IF job.success
     THEN /\ message_ids' = job.value
          /\ mainpc' = "submitB"
          /\ error' = error
     ELSE /\ error' = job.value
          /\ mainpc' = "failed"
          /\ message_ids' = message_ids
  /\ UNCHANGED << envvars, faults, poolvars, imap, mailboxes, listing, taskq,
                  job, messages, workervars, started, task_failed,
                  listed, roundtrip >>

\* Lines 133-135.
SubmitFetch ==
  /\ mainpc = "submitB"
  /\ Submit(2, FetchTasks(Flatten(message_ids)))
  /\ mainpc' = "waitB"
  /\ UNCHANGED << envvars, faults, poolvars, imap, mailboxes, listing,
                  message_ids, messages, error, workervars, task_failed,
                  listed, roundtrip >>

\* Lines 137-139.
GetMessages ==
  /\ mainpc = "waitB"
  /\ job.ready
  /\ IF job.success
     THEN /\ messages' = job.value
          /\ mainpc' = "returned"
          /\ error' = error
     ELSE /\ error' = job.value
          /\ mainpc' = "failed"
          /\ messages' = messages
  /\ UNCHANGED << envvars, faults, poolvars, imap, mailboxes, listing, taskq,
                  job, message_ids, workervars, started, task_failed,
                  listed, roundtrip >>

\* ------------------------------------------------------ the IMAP server
\* SEARCH ALL on a mailbox of n messages: the sequence numbers 1..n
\* (data[0].split()).
message_nums(n) == [k \in 1..n |-> k]

\* The message the server holds under a number in a mailbox.
ServerMessage(mailbox, num) == <<mailbox, num>>

\* Mutant of Selected: a refused select leaves the connection in the
\* SELECTED state.
SelectedAlways(status, mailbox) == [state |-> "SELECTED", mailbox |-> mailbox]

\* imaplib's select: the state is SELECTED on OK and AUTH (nothing
\* selected) otherwise.
Selected(status, mailbox) ==
  IF status = IMAP_OK THEN [state |-> "SELECTED", mailbox |-> mailbox]
  ELSE [state |-> "AUTH", mailbox |-> None]

\* ----------------------------------------- round_robin_connections
\* Mutant of PoolPop: the last id is read but stays in the list.
PoolPopKeep(avail) == [id |-> Last(avail), rest |-> avail]

\* Mutant of PoolAppend: the id is not put back.
PoolAppendDrop(avail, id) == avail

\* Line 112: avail_connections.pop() gives the last id and removes it.
PoolPop(avail) == [id |-> Last(avail), rest |-> Front(avail)]

\* Line 116: avail_connections.append(connection_id).
PoolAppend(avail, id) == Append(avail, id)

CurrentTask(w) == wchunk[w].tasks[wk[w]]
Selector(w) == CurrentTask(w)[1]
FuncArgs(w) == CurrentTask(w)[2]
\* Position of the worker's current task in the task list of its job.
TaskIndex(w) == wchunk[w].i * job.chunksize + wk[w]

\* Pool worker's put((job, i, result)) and the result handler thread's
\* cache[job]._set(i, obj), which is dropped when the job is no longer in
\* the cache. The handler is the only reader of the result queue and takes
\* the results in put order, so its step is taken together with the put.
HandleResult(j, r) ==
  IF j.cached /\ j.id = r.job THEN MapResultSet(j, r.i, r.ok, r.res) ELSE j

\* Mutant of GetTask: the chunk behind the one taken is lost.
GetTaskSkip(w) ==
  /\ wpc[w] = "idle"
  /\ taskq # <<>>
  /\ wchunk' = [wchunk EXCEPT ![w] = Head(taskq)]
  /\ taskq' = IF Len(taskq) >= 2 THEN Tail(Tail(taskq)) ELSE Tail(taskq)
  /\ wk' = [wk EXCEPT ![w] = 1]
  /\ wres' = [wres EXCEPT ![w] = <<>>]
  /\ wpc' = [wpc EXCEPT ![w] = "task"]
  /\ UNCHANGED << mainvars, envvars, faults, poolvars, imap, job, wconn,
                  lastcall, started, task_failed, roundtrip >>

\* Pool worker: take the next chunk off the task queue.
GetTask(w) ==
  /\ wpc[w] = "idle"
  /\ taskq # <<>>
  /\ wchunk' = [wchunk EXCEPT ![w] = Head(taskq)]
  /\ taskq' = Tail(taskq)
  /\ wk' = [wk EXCEPT ![w] = 1]
  /\ wres' = [wres EXCEPT ![w] = <<>>]
  /\ wpc' = [wpc EXCEPT ![w] = "task"]
  /\ UNCHANGED << mainvars, envvars, faults, poolvars, imap, job, wconn,
                  lastcall, started, task_failed, roundtrip >>

\* An exception leaves round_robin_connections and mapstar: the rest of
\* the chunk is not run, the connection id is not appended, and the worker
\* puts (job, i, (False, e)) on the result queue.
Raise(w, exc) ==
  /\ job' = HandleResult(job, [job |-> wchunk[w].job, i |-> wchunk[w].i,
                                ok |-> FALSE, res |-> exc])
  /\ wpc' = [wpc EXCEPT ![w] = "idle"]
  /\ wconn' = [wconn EXCEPT ![w] = -1]
  /\ wres' = [wres EXCEPT ![w] = <<>>]
  /\ wchunk' = [wchunk EXCEPT ![w] = NoChunk]
  /\ wk' = [wk EXCEPT ![w] = 0]
  /\ task_failed' = TRUE

\* Line 111: with lock (entered).
AcquireEnter(w) ==
  /\ wpc[w] = "task"
  /\ lock = NoWorker
  /\ lock' = w
  /\ wpc' = [wpc EXCEPT ![w] = "pop"]
  /\ started' = [started EXCEPT ![wchunk[w].job][TaskIndex(w)] = @ + 1]
  /\ UNCHANGED << mainvars, envvars, faults, connections, avail_connections,
                  workers, imap, taskq, job, wchunk, wk, wres, wconn,
                  lastcall, task_failed, roundtrip >>

\* Mutant of AcquirePop: the method call is inside the with block, so the
\* lock is still held when the call begins.
AcquirePopHoldLock(w) ==
  /\ wpc[w] = "pop"
  /\ avail_connections # <<>>
  /\ wconn' = [wconn EXCEPT ![w] = PoolPop(avail_connections).id]
  /\ avail_connections' = PoolPop(avail_connections).rest
  /\ wpc' = [wpc EXCEPT ![w] = "select"]
  /\ lastcall' = [lastcall EXCEPT ![w] =
       [NoCall EXCEPT !.selector = Selector(w), !.mailbox = FuncArgs(w)[1],
                      !.prior = imap[PoolPop(avail_connections).id].mailbox,
                      !.outcome = "pending"]]
  /\ UNCHANGED << mainvars, envvars, faults, connections, workers, imap, taskq,
                  lock, started, job, wres, wchunk, wk, task_failed, roundtrip >>

\* Lines 112-113 and the end of the with block; pop() of an empty list
\* raises IndexError.
AcquirePop(w) ==
  /\ wpc[w] = "pop"
  /\ lock' = NoWorker
  /\ IF avail_connections = <<>>
     THEN /\ Raise(w, "IndexError")
          /\ UNCHANGED << avail_connections, roundtrip, lastcall >>
     ELSE /\ wconn' = [wconn EXCEPT ![w] = PoolPop(avail_connections).id]
          /\ avail_connections' = PoolPop(avail_connections).rest
          /\ wpc' = [wpc EXCEPT ![w] = "select"]
          /\ lastcall' = [lastcall EXCEPT ![w] =
               [NoCall EXCEPT !.selector = Selector(w),
                              !.mailbox = FuncArgs(w)[1],
                              !.prior = imap[PoolPop(avail_connections).id].mailbox,
                              !.outcome = "pending"]]
          /\ roundtrip' = [phase |-> "acquired", worker |-> w,
                            before |-> Range(avail_connections)]
          /\ UNCHANGED << job, wres, wchunk, wk, task_failed >>
  /\ UNCHANGED << mainvars, envvars, faults, connections, workers, imap, taskq,
                  started >>

\* Mutant of Select: a connection that has a mailbox selected is not asked
\* to select again.
SelectLazy(w) ==
  /\ wpc[w] = "select"
  /\ \E status \in {IMAP_OK, IMAP_NO} :
       /\ status = IMAP_NO => faults < max_faults
       /\ faults' = IF status = IMAP_NO THEN faults + 1 ELSE faults
       /\ imap' = IF imap[wconn[w]].state = "SELECTED" THEN imap
                  ELSE [imap EXCEPT ![wconn[w]] = Selected(status, FuncArgs(w)[1])]
       /\ lastcall' = [lastcall EXCEPT ![w].statuses = Append(@, status)]
  /\ wpc' = [wpc EXCEPT ![w] = "command"]
  /\ UNCHANGED << mainvars, envvars, poolvars, taskq, job, wchunk, wk,
                  wres, wconn, started, task_failed, roundtrip >>

\* Line 114, first half: both methods begin with self.imap.select(mailbox),
\* whose status is not looked at (lines 47-48, 62).
Select(w) ==
  /\ wpc[w] = "select"
  /\ \E status \in {IMAP_OK, IMAP_NO} :
       /\ status = IMAP_NO => faults < max_faults
       /\ faults' = IF status = IMAP_NO THEN faults + 1 ELSE faults
       /\ imap' = [imap EXCEPT ![wconn[w]] = Selected(status, FuncArgs(w)[1])]
       /\ lastcall' = [lastcall EXCEPT ![w].statuses = Append(@, status)]
  /\ wpc' = [wpc EXCEPT ![w] = "command"]
  /\ UNCHANGED << mainvars, envvars, poolvars, taskq, job, wchunk, wk,
                  wres, wconn, started, task_failed, roundtrip >>

\* What the method returns on an OK answer (lines 54-56, 69-70): the ids
\* or the message of the mailbox the connection has selected.
MethodResult(selector, func_args, conn) ==
  IF selector = "fetch_message_ids"
  THEN <<func_args[1], message_nums(exists[conn.mailbox])>>
  ELSE ServerMessage(conn.mailbox, func_args[2])

\* The exception of lines 50-52 / 64-67.
MethodError(selector) ==
  IF selector = "fetch_message_ids" THEN "Failed to fetch messages"
  ELSE "Failed to retrieve message"

\* Line 114, second half: search / fetch. imaplib refuses both unless a
\* mailbox is selected; a status other than OK raises.
Command(w) ==
  /\ wpc[w] = "command"
  /\ IF imap[wconn[w]].state # "SELECTED"
     THEN /\ Raise(w, "imaplib.error")
          /\ lastcall' = [lastcall EXCEPT ![w] = NoCall]
          /\ UNCHANGED faults
     ELSE \/ /\ wres' = [wres EXCEPT ![w] =
                    Append(@, MethodResult(Selector(w), FuncArgs(w), imap[wconn[w]]))]
             /\ wpc' = [wpc EXCEPT ![w] = "release"]
             /\ lastcall' = [lastcall EXCEPT ![w].statuses = Append(@, IMAP_OK),
                                             ![w].served = imap[wconn[w]].mailbox,
                                             ![w].outcome = "returned"]
             /\ UNCHANGED << faults, job, wconn, wchunk, wk, task_failed >>
          \/ /\ faults < max_faults
             /\ faults' = faults + 1
             /\ lastcall' = [lastcall EXCEPT ![w] = NoCall]
             /\ Raise(w, MethodError(Selector(w)))
  /\ UNCHANGED << mainvars, envvars, poolvars, imap, taskq, started,
                  roundtrip >>

\* Line 115: with lock (entered).
ReleaseEnter(w) ==
  /\ wpc[w] = "release"
  /\ lock = NoWorker
  /\ lock' = w
  /\ wpc' = [wpc EXCEPT ![w] = "append"]
  /\ UNCHANGED << mainvars, envvars, faults, connections, avail_connections,
                  workers, imap, taskq, job, wchunk, wk, wres, wconn,
                  lastcall, started, task_failed, roundtrip >>

\* Lines 116-117: the id goes back, the lock is freed, the result is
\* returned; after the last task of the chunk the worker puts
\* (job, i, (True, results)) on the result queue.
ReleaseAppend(w) ==
  /\ wpc[w] = "append"
  /\ avail_connections' = PoolAppend(avail_connections, wconn[w])
  /\ lock' = NoWorker
  /\ wconn' = [wconn EXCEPT ![w] = -1]
  /\ lastcall' = [lastcall EXCEPT ![w] = NoCall]
  /\ roundtrip' = IF roundtrip.phase = "acquired" /\ roundtrip.worker = w
                  THEN [roundtrip EXCEPT !.phase = "released"]
                  ELSE NoRoundtrip
  /\ IF wk[w] = Len(wchunk[w].tasks)
     THEN /\ job' = HandleResult(job, [job |-> wchunk[w].job, i |-> wchunk[w].i,
                                       ok |-> TRUE, res |-> wres[w]])
          /\ wpc' = [wpc EXCEPT ![w] = "idle"]
          /\ wchunk' = [wchunk EXCEPT ![w] = NoChunk]
          /\ wk' = [wk EXCEPT ![w] = 0]
          /\ wres' = [wres EXCEPT ![w] = <<>>]
     ELSE /\ wk' = [wk EXCEPT ![w] = @ + 1]
          /\ wpc' = [wpc EXCEPT ![w] = "task"]
          /\ UNCHANGED << job, wchunk, wres >>
  /\ UNCHANGED << mainvars, envvars, faults, connections, workers, imap, taskq,
                  started, task_failed >>

Next ==
  \/ Connect
  \/ CreatePool
  \/ UseMailboxes
  \/ ListBegin
  \/ ListEnd
  \/ SubmitIds
  \/ GetIds
  \/ SubmitFetch
  \/ GetMessages
  \/ \E w \in Threads : GetTask(w)
  \/ \E w \in Threads : AcquireEnter(w)
  \/ \E w \in Threads : AcquirePop(w)
  \/ \E w \in Threads : Select(w)
  \/ \E w \in Threads : Command(w)
  \/ \E w \in Threads : ReleaseEnter(w)
  \/ \E w \in Threads : ReleaseAppend(w)

Spec == Init /\ [][Next]_vars

\* A run in which the server refuses nothing: every connect, login,
\* select, search and fetch answers OK.
InitReliable ==
  /\ cpu \in 1..MaxCpu
  /\ arg \in MailboxArgs
  /\ exists \in {f \in [Mailboxes -> 0..(MaxInbox + MaxSent)] :
                    f[INBOX] <= MaxInbox /\ f[Sent] <= MaxSent}
  /\ connections_arg = CONNECTION_POOL_SIZE
  /\ list_response = ListResponse
  /\ max_faults = 0
  /\ InitState

\* The steps of the main thread and of one pool thread.
MainStep ==
  \/ Connect \/ CreatePool \/ UseMailboxes \/ ListBegin \/ ListEnd
  \/ SubmitIds \/ GetIds \/ SubmitFetch \/ GetMessages
WorkerStep(w) ==
  /\ w \in Threads
  /\ \/ GetTask(w) \/ AcquireEnter(w) \/ AcquirePop(w) \/ Select(w)
     \/ Command(w) \/ ReleaseEnter(w) \/ ReleaseAppend(w)

\* Every thread that can take a step eventually takes one (the operating
\* system schedules runnable threads).
FairSpec ==
  /\ InitReliable
  /\ [][Next]_vars
  /\ WF_vars(MainStep)
  /\ \A w \in WorkerIds : WF_vars(WorkerStep(w))

\* The start of scrape (connections, pool, mailbox list) over the inputs
\* of __main__ and the listings of the server.
InitInputs ==
  /\ cpu \in 1..MaxCpu
  /\ arg \in MailboxArgs
  /\ exists = [m \in Mailboxes |-> 0]
  /\ connections_arg \in 1..MaxConnectionsArg
  /\ list_response \in {[k \in 1..Len(names) |-> RawLine(names[k])] :
                          names \in SeqsUpTo(ListedNames, MaxListing)}
  /\ max_faults = MaxFailures
  /\ InitState

NextInputs ==
  \/ Connect
  \/ CreatePool
  \/ UseMailboxes
  \/ ListBegin
  \/ ListEnd

SpecInputs == InitInputs /\ [][NextInputs]_vars

\* ============================================================ properties
\* A worker has a protocol call in flight on its connection.
InFlight(w) == wpc[w] \in {"select", "command"}
\* A worker holds a connection id (from the pop to the append).
Leased == {w \in WorkerIds : wconn[w] # -1}
\* scrape has returned or raised.
Ended == mainpc \in {"returned", "failed"}
\* The tasks of the current job, as lines 127 and 134 build them.
JobTasks == IF job.id = 1 THEN IdsTasks(mailboxes) ELSE FetchTasks(Flatten(message_ids))
\* What a task is asked to produce, read off the server directly.
TaskResult(task) ==
  IF task[1] = "fetch_message_ids"
  THEN <<task[2][1], message_nums(exists[task[2][1]])>>
  ELSE ServerMessage(task[2][1], task[2][2])
\* The (mailbox, id) pairs of a mailbox list, mailbox by mailbox, ids in
\* enumeration order.
RECURSIVE ExpectedPairs(_)
ExpectedPairs(boxes) ==
  IF boxes = <<>> THEN <<>>
  ELSE [k \in 1..exists[Head(boxes)] |-> <<Head(boxes), k>>] \o ExpectedPairs(Tail(boxes))
RECURSIVE SumSeq(_)
SumSeq(q) == IF q = <<>> THEN 0 ELSE Head(q) + SumSeq(Tail(q))

\* C1: no two workers ever have a protocol call in flight on the same
\* connection, and no worker has one on the connection main is listing
\* mailboxes on.
C1_SessionMutualExclusion ==
  /\ \A w1, w2 \in WorkerIds :
       (w1 # w2 /\ InFlight(w1) /\ InFlight(w2)) => wconn[w1] # wconn[w2]
  /\ \A w \in WorkerIds : InFlight(w) => wconn[w] # listing
  /\ listing # -1 => \A w \in WorkerIds : ~InFlight(w)

\* C1 witness: two workers have calls in flight at once.
C1_Witness ==
  \E w1, w2 \in WorkerIds : w1 # w2 /\ InFlight(w1) /\ wpc[w2] = "command"

\* C2: when a map_async job is ready and succeeded, its value has one
\* result per task and the result at position k is that of task k.
C2_RunAligned ==
  (job.id # 0 /\ job.ready /\ job.success) =>
     /\ Len(job.value) = Len(JobTasks)
     /\ \A k \in 1..Len(JobTasks) : job.value[k] = TaskResult(JobTasks[k])

\* C2 witness: a finished job with more tasks than connections, run in
\* chunks of more than one task.
C2_Witness ==
  /\ job.ready /\ job.success
  /\ job.length > CONNECTION_POOL_SIZE
  /\ job.chunksize > 1

\* C3 (as claimed): outside the critical section the available ids and
\* the ids workers hold add up to the pool size, the available list has
\* no duplicate and holds no id a worker holds.
C3_PoolCapacity ==
  (workers > 0 /\ lock = NoWorker) =>
     /\ Len(avail_connections) + Cardinality(Leased) = CONNECTION_POOL_SIZE
     /\ Cardinality(Range(avail_connections)) = Len(avail_connections)
     /\ \A w \in Leased : wconn[w] \notin Range(avail_connections)

\* C4: what scrape returns is the message of each (mailbox, id) pair of
\* the flattened sequence, in that order.
C4_EndToEnd ==
  mainpc = "returned" =>
     LET pairs == ExpectedPairs(mailboxes)
     IN /\ Len(messages) = Len(pairs)
        /\ \A k \in 1..Len(pairs) :
             messages[k] = ServerMessage(pairs[k][1], pairs[k][2])

\* C4 witness: the scenario of mailboxes INBOX and Sent with ids 1, 2 and 1.
C4_Witness ==
  /\ mainpc = "returned"
  /\ mailboxes = <<INBOX, Sent>>
  /\ exists[INBOX] = 2 /\ exists[Sent] = 1
  /\ Len(messages) = 3

\* C5: once a task has raised, scrape goes no further than the job.get()
\* of that phase: it never returns and no message is handed to the caller;
\* a failed scrape carries an error and no messages.
C5_AllOrNothing ==
  /\ task_failed =>
       /\ mainpc \in {IF job.id = 1 THEN "waitA" ELSE "waitB", "failed"}
       /\ messages = <<>>
  /\ mainpc = "failed" => (error # NoError /\ messages = <<>>)

\* C5 witness: scrape failed on a fetch after other fetches were started.
C5_Witness ==
  /\ mainpc = "failed"
  /\ error = "Failed to retrieve message"
  /\ SumSeq(started[2]) >= 3

\* C6 (as claimed): while scrape runs, the workers holding or asking for a
\* connection are at most the pool size and none is at the pop with the
\* available list empty.
C6_NoPoolExhaustion ==
  ~Ended =>
     /\ Cardinality({w \in WorkerIds : wpc[w] # "idle"}) <= CONNECTION_POOL_SIZE
     /\ \A w \in WorkerIds : wpc[w] = "pop" => avail_connections # <<>>

\* C7: an acquire followed by the release of the same id, with no other
\* pool operation in between, leaves the set of available ids as it was.
C7_LeaseRoundTrip ==
  roundtrip.phase = "released" => Range(avail_connections) = roundtrip.before

\* C7 witness: such a pair has happened while another worker held an id.
C7_Witness ==
  /\ roundtrip.phase = "released"
  /\ Leased # {}

\* C8, no cancellation: a step never takes a call in flight anywhere but
\* to its own next step, and never drops a queued chunk.
NoCancel ==
  /\ \A w \in WorkerIds :
       /\ wpc[w] = "select" => wpc'[w] \in {"select", "command"}
       /\ wpc[w] = "command" => wpc'[w] \in {"command", "release", "idle"}
       /\ (wpc[w] = "command" /\ wpc'[w] = "idle") =>
             (imap[wconn[w]].state # "SELECTED" \/ faults' = faults + 1)
  /\ taskq' # taskq => (mainpc \in {"submitA", "submitB"} \/ taskq' = Tail(taskq))

\* C8: the job is ready as soon as a failure is recorded, whatever is
\* still running, and nothing in flight is cancelled.
C8_ImmediateFailure ==
  /\ [](~job.success => job.ready)
  /\ [][NoCancel]_vars

\* C8 witness: scrape has failed while a sibling's call is in flight.
C8_Witness ==
  /\ mainpc = "failed"
  /\ task_failed
  /\ \E w \in WorkerIds : InFlight(w)

\* C9: after a failed connect or login nothing was dispatched: no thread
\* pool, no mailbox listing, no job, no task.
C9_ConnectFailureFatal ==
  error \in {"ConnectionError", "AuthenticationError"} =>
     /\ mainpc = "failed"
     /\ workers = 0
     /\ ~listed
     /\ job = NoJob /\ taskq = <<>>
     /\ started = [j \in 1..2 |-> <<>>]
     /\ \A w \in WorkerIds : wpc[w] = "idle"

\* C9 witness: the login of a later connection failed after an earlier
\* one succeeded.
C9_Witness ==
  /\ error = "AuthenticationError"
  /\ Len(connections) >= 1

\* C10 (as claimed): when scrape has ended, every connection it created
\* is logged out.
C10_Teardown ==
  Ended => \A c \in Range(connections) : imap[c].state = "LOGOUT"

\* C11 (as claimed): the pool scrape builds has as many connections as
\* the caller asked for, with ids 0..N-1, all available at the start.
C11_PoolSizeInput ==
  mainpc = "mailboxes" =>
     /\ connections = PyRange(connections_arg)
     /\ avail_connections = PyRange(connections_arg)

\* The name a raw line of the listing carries.
NameOfLine(line) == CHOOSE n \in ListedNames : RawLine(n) = line
\* The names of a listing, in listing order.
ListedSeq(lines) == [k \in 1..Len(lines) |-> NameOfLine(lines[k])]
HasMarker(name) == Contains(name, GmailMarker)
NoMarker(name) == ~HasMarker(name)

\* C13: the mailbox list of Phase A is the supplied list as it is, or,
\* when none is supplied, the listed names without those that carry the
\* marker, in listing order, obtained by one listing call.
C13_MailboxSet ==
  mainpc = "submitA" =>
     IF arg.given
     THEN mailboxes = arg.list /\ ~listed
     ELSE /\ listed
          /\ mailboxes = SelectSeq(ListedSeq(list_response), NoMarker)
          /\ \A k \in 1..Len(mailboxes) : ~HasMarker(mailboxes[k])

\* C13 witness: a listing of three lines, one of them of the reserved
\* namespace, gave a default list of two mailboxes.
C13_Witness ==
  /\ mainpc = "submitA"
  /\ ~arg.given
  /\ Len(list_response) = 3
  /\ \E k \in 1..3 : HasMarker(list_response[k])
  /\ Len(mailboxes) = 2

\* C14 (as claimed): when no task is in flight every connection id is
\* back in the available list.
C14_EveryLeaseReturned ==
  (workers > 0 /\ \A w \in WorkerIds : wpc[w] = "idle") =>
     /\ Range(avail_connections) = ConnIds
     /\ Len(avail_connections) = CONNECTION_POOL_SIZE

\* C15: the thread that holds the lock is at the pop or at the append,
\* never in a protocol call.
C15_LockOnlyForBookkeeping ==
  \A w \in WorkerIds :
     /\ lock = w => wpc[w] \in {"pop", "append"}
     /\ InFlight(w) => lock # w

\* C15 witness: one thread holds the lock while another has a call in
\* flight.
C15_Witness ==
  \E w1, w2 \in WorkerIds : w1 # w2 /\ lock = w1 /\ wpc[w2] = "select"

\* C12, one call: a fetch_message_ids call that ends returns
\* (mailbox, ids) when select and search both answered OK, and raises
\* (no result, the task fails) otherwise.
ListIdsStep(w) ==
  (wpc[w] = "command" /\ wpc'[w] # "command"
     /\ lastcall[w].selector = "fetch_message_ids") =>
     LET selectOK == lastcall[w].statuses = <<IMAP_OK>>
         searchOK == selectOK /\ faults' = faults
         mailbox == lastcall[w].mailbox
     IN IF selectOK /\ searchOK
        THEN /\ wpc'[w] = "release"
             /\ Last(wres'[w]) = <<mailbox, message_nums(exists[mailbox])>>
        ELSE /\ wpc'[w] = "idle"
             /\ wres'[w] = <<>>
             /\ task_failed'

\* C12: fetch_message_ids raises whenever the select or the search did
\* not answer OK, and returns (mailbox, ids) only when both did.
C12_ListIdsFailsOnNonOK == [][\A w \in WorkerIds : ListIdsStep(w)]_vars

\* C12 witness: Phase A failed because a select was refused (the search
\* after it raised).
C12_Witness ==
  /\ job.id = 1
  /\ ~job.success
  /\ job.value = "imaplib.error"

\* C16: a fetch_message call is served from the mailbox of its task,
\* whatever the connection had selected before.
C16_FetchSelectsOwnMailbox ==
  \A w \in WorkerIds :
     /\ (wpc[w] = "command" /\ Selector(w) = "fetch_message"
           /\ imap[wconn[w]].state = "SELECTED") =>
          imap[wconn[w]].mailbox = FuncArgs(w)[1]
     /\ (wpc[w] \in {"release", "append"} /\ Selector(w) = "fetch_message") =>
          /\ lastcall[w].served = FuncArgs(w)[1]
          /\ Last(wres[w]) = ServerMessage(FuncArgs(w)[1], FuncArgs(w)[2])

\* C16 witness: a fetch has returned on a connection that had another
\* mailbox selected when it was leased.
C16_Witness ==
  \E w \in WorkerIds :
     /\ wpc[w] = "release"
     /\ lastcall[w].selector = "fetch_message"
     /\ lastcall[w].prior # None
     /\ lastcall[w].prior # lastcall[w].mailbox

\* Every task of Phase A was run and its result is in message_ids.
PhaseADone ==
  /\ Len(message_ids) = Len(mailboxes)
  /\ Len(started[1]) = Len(mailboxes)
  /\ \A k \in 1..Len(mailboxes) :
       /\ started[1][k] = 1
       /\ message_ids[k] # None
       /\ message_ids[k][1] = mailboxes[k]
  /\ \A w \in WorkerIds : wchunk[w].job # 1
  /\ \A n \in 1..Len(taskq) : taskq[n].job # 1
\* Phase B has begun: its tasks are being built, are queued or are run.
PhaseBBegun ==
  \/ mainpc \in {"submitB", "waitB", "returned"}
  \/ job.id = 2
  \/ \E w \in WorkerIds : wchunk[w].job = 2
  \/ \E n \in 1..Len(taskq) : taskq[n].job = 2
\* The pair is an id Phase A enumerated, with the mailbox it came from.
EnumeratedPair(pair) ==
  \E k \in 1..Len(message_ids) :
     message_ids[k][1] = pair[1] /\ pair[2] \in Range(message_ids[k][2])
FetchChunk(chunk) ==
  \A n \in 1..Len(chunk.tasks) :
     /\ chunk.tasks[n][1] = "fetch_message"
     /\ EnumeratedPair(chunk.tasks[n][2])

\* C17: Phase B begins only when every Phase A task has completed and its
\* result is collected, and every fetch task is for an enumerated pair.
C17_PhaseBarrier ==
  /\ PhaseBBegun => PhaseADone
  /\ \A w \in WorkerIds :
       /\ wchunk[w].job = 2 => FetchChunk(wchunk[w])
       /\ (wpc[w] # "idle" /\ Selector(w) = "fetch_message") => wchunk[w].job = 2
  /\ \A n \in 1..Len(taskq) : taskq[n].job = 2 => FetchChunk(taskq[n])

\* C17 witness: a fetch of a message of Sent is in flight.
C17_Witness ==
  \E w \in WorkerIds :
     /\ wpc[w] = "command"
     /\ Selector(w) = "fetch_message"
     /\ FuncArgs(w)[1] = Sent

\* No task was started more than once.
AtMostOnce ==
  \A j \in 1..2 : \A k \in 1..Len(started[j]) : started[j][k] <= 1
\* Each task of both phases was started once.
ExactlyOnce ==
  /\ Len(started[1]) = Len(mailboxes)
  /\ Len(started[2]) = Len(ExpectedPairs(mailboxes))
  /\ \A j \in 1..2 : \A k \in 1..Len(started[j]) : started[j][k] = 1

\* C18: when the server refuses nothing and the threads are scheduled
\* fairly, no task is ever started twice and scrape eventually returns
\* with every task of both phases started once.
C18_ExactlyOnceAndReturns ==
  /\ []AtMostOnce
  /\ <>(mainpc = "returned" /\ ExactlyOnce)

\* C18 witness: scrape has returned after fetch tasks in chunks of two.
C18_Witness ==
  /\ mainpc = "returned"
  /\ ExactlyOnce
  /\ job.chunksize = 2
  /\ max_faults = 0

====
